---- MODULE Spec2Model ----
(***************************************************************************)
(* Model of the dashboard's view synchronizer (src/map_data_presentaiton.py *)
(* with src/utils.py and src/dashboard.py).                                 *)
(*                                                                          *)
(* Numbers.  Column values are fixed-point integers in hundredths (a rate   *)
(* of 0.4 is 40, a count of 7 is 700).  Axis and color ranges are in        *)
(* ten-thousandths, so that the paddings of the code are exact:             *)
(*   v * 1.05 is v * 105,  v * 1.02 is v * 102,  v * 0.02 is v * 2,         *)
(*   the literal 1 is 10000 and the literal 1.05 is 10500.                  *)
(* Python's None is the string "None" for a column or control value, the    *)
(* empty sequence for an optional index or an optional range.               *)
(***************************************************************************)
EXTENDS Integers, Sequences, FiniteSets, TLC

VARIABLES
    df,                \* the dataset loaded by dashboard.py, a sequence of rows
    main_dropdown,     \* value of the "main-dropdown" control
    y_axis_dropdown,   \* value of the "y-axis-dropdown" control
    x_axis_dropdown,   \* value of the "x-axis-dropdown" control
    hoverData,         \* chart id -> the hoverData property of that dcc.Graph
    figure,            \* chart id -> the figure property of that dcc.Graph
    last,              \* what the last callback invocation did
    nEvents,           \* number of user interactions so far in the session
    call,              \* a direct call of a render function and its result
    recall,            \* the RecallVoteDataParser object and its run
    polling,           \* the PollingStationParser object and its run
    disk,              \* the output files of the recall vote scraper
    site,              \* what the scraped web sites list
    faults             \* number of failures of the environment so far

vars == <<df, main_dropdown, y_axis_dropdown, x_axis_dropdown, hoverData,
          figure, last, nEvents, call, recall, polling, disk, site, faults>>

\* the state of the dashboard and the state of the data_processing scripts
dashboardVars == <<df, main_dropdown, y_axis_dropdown, x_axis_dropdown,
                   hoverData, figure, last, nEvents, call>>

scraperVars == <<recall, polling, disk, site, faults>>

-----------------------------------------------------------------------------
(* Bounds of the model *)

\* number of rows of the dataset
MaxRows == 2

\* number of user interactions (hover events, control changes) in one session
MaxEvents == 3

-----------------------------------------------------------------------------
(* Python values *)

None == "None"

\* truthiness of a control value: None and the empty string are falsy
Falsy(v) == v = None \/ v = ""

Max2(a, b) == IF a >= b THEN a ELSE b

Min2(a, b) == IF a <= b THEN a ELSE b

-----------------------------------------------------------------------------
(* The dataset *)

\* exterior ring of a polygon: a closed sequence of <<lon, lat>> coordinates
Ring(k) == << <<k, 0>>, <<k + 1, 0>>, <<k, 1>>, <<k, 0>> >>

\* geometry of row i: odd rows are single polygons, even rows multi-polygons
\* of two or three member polygons
Geometry(i) ==
    IF i % 2 = 1
    THEN [geom_type |-> "Polygon", geoms |-> << Ring(10 * i) >>]
    ELSE IF i % 4 = 2
    THEN [geom_type |-> "MultiPolygon",
          geoms |-> << Ring(10 * i), Ring(10 * i + 3) >>]
    ELSE [geom_type |-> "MultiPolygon",
          geoms |-> << Ring(10 * i), Ring(10 * i + 3), Ring(10 * i + 6) >>]

\* row i (1-based here; positional index i - 1 in the code) of the dataset
Row(i) ==
    [ area_name                       |-> i,
      region                          |-> (i + 1) \div 2,
      legislator_rate                 |-> 40 + 20 * ((i - 1) % 4),
      against_recall_rate             |-> 30 + 20 * ((i - 1) % 4),
      legislator_vote                 |-> 100 * (3 + ((4 * i) % 5)),
      against_recall_vote             |-> 100 * (2 + ((3 * i) % 7)),
      legislator_voting_rate          |-> 50 + 10 * (i % 3),
      recall_voting_rate              |-> 45 + 10 * ((i + 1) % 3),
      legislator_total_voter_count    |-> 100 * (10 + i),
      recall_vote_total_voter_count   |-> 100 * (14 - ((2 * i) % 5)),
      legislator_total_voter_density  |-> 100 * (20 + ((7 * i) % 11)),
      recall_vote_total_voter_density |-> 100 * (15 + ((5 * i) % 9)),
      geometry                        |-> Geometry(i) ]

Dataset(n) == [i \in 1..n |-> Row(i)]

\* df.iloc[k] of pandas: position k, negative k counted from the end;
\* defined only when IlocRaises(d, k) is false
IlocRaises(d, k) == k >= Len(d) \/ k < 0 - Len(d)

Iloc(d, k) == IF k >= 0 THEN d[k + 1] ELSE d[Len(d) + k + 1]

RECURSIVE SeqMax(_)
SeqMax(s) ==
    IF Len(s) = 1 THEN s[1] ELSE Max2(s[1], SeqMax(Tail(s)))

RECURSIVE SeqMin(_)
SeqMin(s) ==
    IF Len(s) = 1 THEN s[1] ELSE Min2(s[1], SeqMin(Tail(s)))

\* df[col], the column as a sequence in positional order
Column(d, col) == [i \in 1..Len(d) |-> d[i][col]]

\* df[col].max() and df[col].min()
ColMax(d, col) == SeqMax(Column(d, col))

ColMin(d, col) == SeqMin(Column(d, col))

-----------------------------------------------------------------------------
(* src/utils.py *)

\* scatter_configs: category -> the upper and the lower measure column
scatter_configs ==
    ("Support vote rate" :> [upper |-> "legislator_rate",
                             lower |-> "against_recall_rate"]) @@
    ("Support vote"      :> [upper |-> "legislator_vote",
                             lower |-> "against_recall_vote"]) @@
    ("Voting Rate"       :> [upper |-> "legislator_voting_rate",
                             lower |-> "recall_voting_rate"]) @@
    ("Total Voter"       :> [upper |-> "legislator_total_voter_count",
                             lower |-> "recall_vote_total_voter_count"])

x_axis_options ==
    {"legislator_total_voter_density", "recall_vote_total_voter_density"}

\* the measure columns of the dataset that name a rate: the names for which
\* the test  "rate" in column.lower()  of the code is true
ContainsRate(col) ==
    col \in {"legislator_rate", "against_recall_rate",
             "legislator_voting_rate", "recall_voting_rate"}

\* the keys of title_mapping among the names the dashboard passes
title_mapping_keys ==
    {"legislator_rate", "against_recall_rate", "legislator_vote",
     "against_recall_vote", "legislator_voting_rate", "recall_voting_rate",
     "legislator_total_voter_count", "recall_vote_total_voter_count",
     "legislator_total_voter_density", "recall_vote_total_voter_density",
     "region", "area_name", "Support vote rate", "Support vote",
     "Voting Rate", "Total Voter"}

\* title_mapping.get(column_name, column_name.replace('_', ' ').title()):
\* Python evaluates the default before the lookup, so a column_name of None
\* raises AttributeError whether or not the key is mapped
get_axis_title_raises(column_name) == column_name = None

\* the title returned when no exception is raised: the mapped display string
\* of a key, else the name reformatted (underscores to spaces, title case)
get_axis_title(column_name) ==
    IF column_name \in title_mapping_keys
    THEN <<"title_mapping", column_name>>
    ELSE <<"replace_title", column_name>>

-----------------------------------------------------------------------------
(* Figures.  A figure is [data, layout]: data is the sequence of traces.    *)
(* A trace is [type, name, x, y, color, hoverinfo]; for the map's traces x  *)
(* holds locations (choropleth) or lon (outline) and y holds z (choropleth) *)
(* or lat (outline).  A trace name is a sequence of string pieces, so that  *)
(* str.startswith is a prefix test on it.                                   *)

NoLayout ==
    [ xaxis_range |-> <<>>, yaxis_range |-> <<>>,
      xaxis_title |-> <<>>, yaxis_title |-> <<>>,
      color_scale |-> "", range_color |-> <<>>,
      colorbar_title |-> <<>>, title |-> <<>>, height |-> 0 ]

\* go.Figure(): no traces, default layout
EmptyFigure == [data |-> <<>>, layout |-> NoLayout]

\* name.startswith(prefix)
StartsWith(name, prefix) ==
    /\ Len(name) >= Len(prefix)
    /\ SubSeq(name, 1, Len(prefix)) = prefix

\* the traces of a figure that are highlight overlays
IsHighlightTrace(trace) == StartsWith(trace.name, <<"Highlighted">>)

Overlays(fig) == SelectSeq(fig.data, IsHighlightTrace)

\* faulty variant: the marker is placed with its coordinates exchanged
HighlightMarker_Swapped(d, highlight_index, x_column, y_column) ==
    [ type |-> "scatter", name |-> <<"Highlighted">>,
      x |-> << Iloc(d, highlight_index[1])[y_column] >>,
      y |-> << Iloc(d, highlight_index[1])[x_column] >>,
      color |-> <<>>, hoverinfo |-> "skip" ]

\* the marker overlay of create_scatter_plot and create_cross_scatter_plot
HighlightMarker(d, highlight_index, x_column, y_column) ==
    [ type |-> "scatter", name |-> <<"Highlighted">>,
      x |-> << Iloc(d, highlight_index[1])[x_column] >>,
      y |-> << Iloc(d, highlight_index[1])[y_column] >>,
      color |-> <<>>, hoverinfo |-> "skip" ]

\* the guard  highlight_index is not None and 0 <= highlight_index < len(df)
HighlightGuard(d, highlight_index) ==
    /\ highlight_index # <<>>
    /\ 0 <= highlight_index[1]
    /\ highlight_index[1] < Len(d)

\* faulty variant: the base trace lists the rows in reverse order
ScatterBase_Reversed(d, x_column, y_column) ==
    [ type |-> "scatter", name |-> <<>>,
      x |-> [i \in 1..Len(d) |-> d[Len(d) + 1 - i][x_column]],
      y |-> [i \in 1..Len(d) |-> d[Len(d) + 1 - i][y_column]],
      color |-> [i \in 1..Len(d) |-> d[Len(d) + 1 - i][y_column]],
      hoverinfo |-> "" ]

\* the base trace of px.scatter(df, x=, y=, color=y_column): every row, in
\* positional order
ScatterBase(d, x_column, y_column) ==
    [ type |-> "scatter", name |-> <<>>,
      x |-> Column(d, x_column), y |-> Column(d, y_column),
      color |-> Column(d, y_column), hoverinfo |-> "" ]

-----------------------------------------------------------------------------
(* src/map_data_presentaiton.py: the render functions *)

\* faulty variant: a rate pair is ranged by the observed values too
calculate_consistent_ranges_Observed(d, upper_col, lower_col, x_axis_column) ==
    LET x_max == ColMax(d, x_axis_column)
        max_val == Max2(ColMax(d, upper_col), ColMax(d, lower_col))
    IN  << << 0 - x_max * 2, x_max * 102 >>,
           <<0, max_val * 105>>, <<0, max_val * 105>> >>

\* faulty variant: the shared range is taken from the upper column alone
calculate_consistent_ranges_UpperOnly(d, upper_col, lower_col, x_axis_column) ==
    LET x_max == ColMax(d, x_axis_column)
    IN  IF ContainsRate(upper_col) /\ ContainsRate(lower_col)
        THEN << << 0 - x_max * 2, x_max * 102 >>, <<0, 10500>>, <<0, 10500>> >>
        ELSE << << 0 - x_max * 2, x_max * 102 >>,
                <<0, ColMax(d, upper_col) * 105>>,
                <<0, ColMax(d, upper_col) * 105>> >>

\* calculate_consistent_ranges(df, upper_col, lower_col, x_axis_column)
\* returns <<x_range, y_range, color_range>>
calculate_consistent_ranges(d, upper_col, lower_col, x_axis_column) ==
    LET x_max == ColMax(d, x_axis_column)
        x_range == << 0 - x_max * 2, x_max * 102 >>
        max_val == Max2(ColMax(d, upper_col), ColMax(d, lower_col))
    IN  IF ContainsRate(upper_col) /\ ContainsRate(lower_col)
        THEN << x_range, <<0, 10500>>, <<0, 10500>> >>
        ELSE << x_range, <<0, max_val * 105>>, <<0, max_val * 105>> >>

\* create_scatter_plot raises when y_column is None (None.lower(), line 66)
\* and, with no x_range given, when x_column is None (df[None], line 82)
create_scatter_plot_raises(y_column, x_column, x_range) ==
    y_column = None \/ (x_range = <<>> /\ x_column = None)

\* faulty variant: every scatter plot is drawn on the sequential scale
create_scatter_plot_AlwaysViridis(d, y_column, x_column, highlight_index, x_range, y_range, color_range, x_title, y_title) ==
    [ data |-> IF HighlightGuard(d, highlight_index)
               THEN << ScatterBase(d, x_column, y_column),
                       HighlightMarker(d, highlight_index, x_column, y_column) >>
               ELSE << ScatterBase(d, x_column, y_column) >>,
      layout |-> [ xaxis_range |-> x_range, yaxis_range |-> y_range,
                   xaxis_title |-> x_title, yaxis_title |-> y_title,
                   color_scale |-> "Viridis", range_color |-> color_range,
                   colorbar_title |-> <<>>, title |-> <<>>, height |-> 280 ] ]

\* create_scatter_plot(df, y_column, x_column, highlight_index, x_range,
\* y_range, color_range, x_title, y_title); an argument left at its default
\* None is <<>>
create_scatter_plot(d, y_column, x_column, highlight_index, x_range, y_range, color_range, x_title, y_title) ==
    LET rate == ContainsRate(y_column)
        cr == IF color_range # <<>> THEN color_range
              ELSE IF rate THEN <<0, 10000>>
              ELSE <<0, ColMax(d, y_column) * 100>>
        yr == IF y_range # <<>> THEN y_range
              ELSE IF rate THEN <<0, 10000>>
              ELSE <<0, ColMax(d, y_column) * 100>>
        xr == IF x_range # <<>> THEN x_range
              ELSE <<ColMin(d, x_column) * 100, ColMax(d, x_column) * 100>>
        base == << ScatterBase(d, x_column, y_column) >>
        data == IF HighlightGuard(d, highlight_index)
                THEN Append(base,
                            HighlightMarker(d, highlight_index, x_column, y_column))
                ELSE base
    IN  [ data |-> data,
          layout |-> [ xaxis_range |-> xr, yaxis_range |-> yr,
                       xaxis_title |-> x_title, yaxis_title |-> y_title,
                       color_scale |-> IF rate THEN "RdYlGn" ELSE "Viridis",
                       range_color |-> cr,
                       colorbar_title |-> <<>>, title |-> <<>>,
                       height |-> 280 ] ]

\* lons and lats of the exterior ring of a polygon, as an outline trace
OutlineTrace(ring, name) ==
    [ type |-> "scattermapbox", name |-> name,
      x |-> [j \in 1..Len(ring) |-> ring[j][1]],
      y |-> [j \in 1..Len(ring) |-> ring[j][2]],
      color |-> <<>>, hoverinfo |-> "skip" ]

\* faulty variant: the members of a MultiPolygon are all named "Highlighted"
MapPlotHighlightTraces_Unnumbered(highlighted_geom) ==
    [i \in 1..Len(highlighted_geom.geoms) |->
        OutlineTrace(highlighted_geom.geoms[i], <<"Highlighted">>)]

\* the traces create_map_plot adds for the highlighted geometry: one named
\* "Highlighted" for a Polygon, one named "Highlighted_{i}" per member of a
\* MultiPolygon, none for any other geometry type
MapPlotHighlightTraces(highlighted_geom) ==
    IF highlighted_geom.geom_type = "Polygon"
    THEN << OutlineTrace(highlighted_geom.geoms[1], <<"Highlighted">>) >>
    ELSE IF highlighted_geom.geom_type = "MultiPolygon"
    THEN [i \in 1..Len(highlighted_geom.geoms) |->
            OutlineTrace(highlighted_geom.geoms[i],
                         <<"Highlighted", "_", ToString(i - 1)>>)]
    ELSE <<>>

\* the trace of px.choropleth_mapbox(df, locations=df.index, color=column)
ChoroplethBase(d, selected_column) ==
    [ type |-> "choroplethmapbox", name |-> <<>>,
      x |-> [i \in 1..Len(d) |-> i - 1],
      y |-> Column(d, selected_column),
      color |-> Column(d, selected_column), hoverinfo |-> "" ]

\* create_map_plot(df, selected_column, highlight_index, colorbar_title)
create_map_plot(d, selected_column, highlight_index, colorbar_title) ==
    IF Falsy(selected_column)
    THEN EmptyFigure
    ELSE
    LET rate == ContainsRate(selected_column)
        color_range == IF rate THEN <<0, 10000>>
                       ELSE <<0, ColMax(d, selected_column) * 100>>
        base == << ChoroplethBase(d, selected_column) >>
        data == IF HighlightGuard(d, highlight_index)
                THEN base \o MapPlotHighlightTraces(
                                 Iloc(d, highlight_index[1]).geometry)
                ELSE base
    IN  [ data |-> data,
          layout |-> [ xaxis_range |-> <<>>, yaxis_range |-> <<>>,
                       xaxis_title |-> <<>>, yaxis_title |-> <<>>,
                       color_scale |-> IF rate THEN "RdYlGn" ELSE "Viridis",
                       range_color |-> color_range,
                       colorbar_title |-> colorbar_title,
                       title |-> <<"Choropleth Map: ", selected_column>>,
                       height |-> 600 ] ]

\* faulty variant: the reference line always runs from (0, 0) to (1, 1)
DiagonalTrace_Unit(axis_range) ==
    [ type |-> "scatter", name |-> <<"Diagonal (y=x)">>,
      x |-> << 0, 10000 >>, y |-> << 0, 10000 >>,
      color |-> <<>>, hoverinfo |-> "" ]

\* the diagonal reference line of the cross scatter plot
DiagonalTrace(axis_range) ==
    [ type |-> "scatter", name |-> <<"Diagonal (y=x)">>,
      x |-> << axis_range[1], axis_range[2] >>,
      y |-> << axis_range[1], axis_range[2] >>,
      color |-> <<>>, hoverinfo |-> "" ]

\* create_cross_scatter_plot raises when a column is None: df[None] is a
\* KeyError (lines 249-250)
create_cross_scatter_plot_raises(x_column, y_column) ==
    x_column = None \/ y_column = None

\* create_cross_scatter_plot(df, x_column, y_column, highlight_index);
\* px.scatter is given no range_color here
create_cross_scatter_plot(d, x_column, y_column, highlight_index) ==
    LET axis_max == Max2(ColMax(d, x_column), ColMax(d, y_column))
        axis_range == <<0, axis_max * 105>>
        base == << ScatterBase(d, x_column, y_column),
                   DiagonalTrace(axis_range) >>
        data == IF HighlightGuard(d, highlight_index)
                THEN Append(base,
                            HighlightMarker(d, highlight_index, x_column, y_column))
                ELSE base
    IN  [ data |-> data,
          layout |-> [ xaxis_range |-> axis_range, yaxis_range |-> axis_range,
                       xaxis_title |-> get_axis_title(x_column),
                       yaxis_title |-> get_axis_title(y_column),
                       color_scale |-> "Viridis", range_color |-> <<>>,
                       colorbar_title |-> <<>>, title |-> <<>>,
                       height |-> 280 ] ]

\* create_initial_cross_scatter_plots(df): <<cross_upper_fig, cross_lower_fig>>
create_initial_cross_scatter_plots(d) ==
    << create_cross_scatter_plot(d, "legislator_rate", "against_recall_rate", <<>>),
       create_cross_scatter_plot(d, "legislator_vote", "against_recall_vote", <<>>) >>

\* faulty variant: the initial scatter plots are drawn without shared ranges
create_initial_scatter_plots_Unranged(d) ==
    << create_scatter_plot(d, "legislator_rate",
                           "legislator_total_voter_density", <<>>, <<>>, <<>>,
                           <<>>, get_axis_title("legislator_total_voter_density"),
                           get_axis_title("legislator_rate")),
       create_scatter_plot(d, "against_recall_rate",
                           "legislator_total_voter_density", <<>>, <<>>, <<>>,
                           <<>>, get_axis_title("legislator_total_voter_density"),
                           get_axis_title("against_recall_rate")) >>

\* create_initial_scatter_plots(df): <<upper_fig, lower_fig>>
create_initial_scatter_plots(d) ==
    LET config == scatter_configs["Support vote rate"]
        x_axis == "legislator_total_voter_density"
        r == calculate_consistent_ranges(d, config.upper, config.lower, x_axis)
    IN  << create_scatter_plot(d, config.upper, x_axis, <<>>, r[1], r[2], r[3],
                               get_axis_title(x_axis), get_axis_title(config.upper)),
           create_scatter_plot(d, config.lower, x_axis, <<>>, r[1], r[2], r[3],
                               get_axis_title(x_axis), get_axis_title(config.lower)) >>

-----------------------------------------------------------------------------
(* src/map_data_presentaiton.py: create_calloutpus, the three callbacks *)

Charts ==
    {"map-graph", "upper-scatter", "lower-scatter",
     "cross-upper-scatter", "cross-lower-scatter"}

\* A hoverData property: None, or a dict that may hold "points", a list of
\* dicts that may hold "pointIndex"
NoHover == [isNone |-> TRUE, hasPoints |-> FALSE, points |-> <<>>]

HoverPoint(k) ==
    [ isNone |-> FALSE, hasPoints |-> TRUE,
      points |-> << [hasPointIndex |-> TRUE, pointIndex |-> k] >> ]

HoverNoPoints == [isNone |-> FALSE, hasPoints |-> TRUE, points |-> <<>>]

\* the condition of each branch of the if/elif chain:  hoverData and "points"
\* in hoverData and len(hoverData["points"]) > 0 and "pointIndex" in
\* hoverData["points"][0]
HoverPresent(h) ==
    /\ ~h.isNone
    /\ h.hasPoints
    /\ Len(h.points) > 0
    /\ h.points[1].hasPointIndex

\* faulty variant: the branch takes the hovered index without the bounds test
BranchIndex_Unchecked(h, n) == << h.points[1].pointIndex >>

\* the body of each branch: the hovered index if it is within the rows, else
\* highlight_index stays None
BranchIndex(h, n) ==
    LET hovered_index == h.points[1].pointIndex
    IN  IF 0 <= hovered_index /\ hovered_index < n
        THEN << hovered_index >>
        ELSE <<>>

\* faulty variant: the upper scatter is consulted before the map
Resolve_UpperFirst(map_hoverData, upper_hoverData, lower_hoverData, cross_upper_hoverData, cross_lower_hoverData, n) ==
    IF HoverPresent(upper_hoverData) THEN BranchIndex(upper_hoverData, n)
    ELSE IF HoverPresent(map_hoverData) THEN BranchIndex(map_hoverData, n)
    ELSE IF HoverPresent(lower_hoverData) THEN BranchIndex(lower_hoverData, n)
    ELSE IF HoverPresent(cross_upper_hoverData)
    THEN BranchIndex(cross_upper_hoverData, n)
    ELSE IF HoverPresent(cross_lower_hoverData)
    THEN BranchIndex(cross_lower_hoverData, n)
    ELSE <<>>

\* "Determine highlight index from any hover data": the if/elif chain over
\* the five hoverData inputs; only the first branch whose condition holds runs
ResolveHighlightIndex(map_hoverData, upper_hoverData, lower_hoverData, cross_upper_hoverData, cross_lower_hoverData, n) ==
    IF HoverPresent(map_hoverData) THEN BranchIndex(map_hoverData, n)
    ELSE IF HoverPresent(upper_hoverData) THEN BranchIndex(upper_hoverData, n)
    ELSE IF HoverPresent(lower_hoverData) THEN BranchIndex(lower_hoverData, n)
    ELSE IF HoverPresent(cross_upper_hoverData)
    THEN BranchIndex(cross_upper_hoverData, n)
    ELSE IF HoverPresent(cross_lower_hoverData)
    THEN BranchIndex(cross_lower_hoverData, n)
    ELSE <<>>

\* faulty variant: the filter keeps every trace
KeepTrace_All(trace) == TRUE

\* the filter of the incremental map path: a trace is kept unless its name
\* starts with "Highlighted"
KeepTrace(trace) == ~StartsWith(trace.name, <<"Highlighted">>)

\* a trace whose name is exactly "Highlighted"
NamedHighlighted(trace) == trace.name = <<"Highlighted">>

\* faulty variant: only the traces named exactly "Highlighted" are removed
StripHighlightTraces_ExactName(data) ==
    SelectSeq(data, LAMBDA trace : ~NamedHighlighted(trace))

\* map_fig.data = [trace for trace in map_fig.data if not hasattr(trace,
\* "name") or not trace.name.startswith("Highlighted")]
StripHighlightTraces(data) == SelectSeq(data, KeepTrace)

\* faulty variant: only the first member of a MultiPolygon is outlined
IncrementalHighlightTraces_FirstOnly(highlighted_geom) ==
    << OutlineTrace(highlighted_geom.geoms[1], <<"Highlighted">>) >>

\* the traces the hover callback appends to the previous map for the
\* highlighted geometry
IncrementalHighlightTraces(highlighted_geom) ==
    IF highlighted_geom.geom_type = "Polygon"
    THEN << OutlineTrace(highlighted_geom.geoms[1], <<"Highlighted">>) >>
    ELSE IF highlighted_geom.geom_type = "MultiPolygon"
    THEN [i \in 1..Len(highlighted_geom.geoms) |->
            OutlineTrace(highlighted_geom.geoms[i],
                         <<"Highlighted", "_", ToString(i - 1)>>)]
    ELSE <<>>

\* "Handle map highlighting by adding traces to existing map".
\* current_map_fig is <<>> for None, else << figure >>.  In the incremental
\* path df.iloc[highlight_index] is read whenever highlight_index is set.
MapUpdateRaises(d, main, highlight_index, current_map_fig) ==
    /\ current_map_fig # <<>>
    /\ highlight_index # <<>>
    /\ IlocRaises(d, highlight_index[1])

\* faulty variant: the new outlines are appended to the previous map as it is
MapUpdate_NoStrip(d, main, highlight_index, current_map_fig) ==
    [ data |-> IF highlight_index # <<>>
               THEN current_map_fig[1].data \o
                    IncrementalHighlightTraces(Iloc(d, highlight_index[1]).geometry)
               ELSE current_map_fig[1].data,
      layout |-> current_map_fig[1].layout ]

MapUpdate(d, main, highlight_index, current_map_fig) ==
    IF current_map_fig # <<>>
    THEN LET kept == StripHighlightTraces(current_map_fig[1].data)
         IN  [ data |-> IF highlight_index # <<>>
                        THEN kept \o IncrementalHighlightTraces(
                                         Iloc(d, highlight_index[1]).geometry)
                        ELSE kept,
               layout |-> current_map_fig[1].layout ]
    ELSE create_map_plot(d, main, highlight_index, get_axis_title(main))

\* update_all_visualizations_with_highlight: the value returned, a tuple of
\* figures, or raised = TRUE when an exception leaves the function.  The
\* Output order is upper, lower, cross-upper, cross-lower, map.
update_all_visualizations_with_highlight(d, map_hoverData, upper_hoverData, lower_hoverData, cross_upper_hoverData, cross_lower_hoverData, y_axis_type, x_axis_column, main, current_map_fig) ==
    IF Falsy(y_axis_type) \/ Falsy(x_axis_column) \/ Falsy(main)
    THEN [ raised |-> FALSE, resolved |-> FALSE, highlight_index |-> <<>>,
           value |-> << EmptyFigure, EmptyFigure, EmptyFigure, EmptyFigure >> ]
    ELSE
    LET config == scatter_configs[y_axis_type]
        upper_col == config.upper
        lower_col == config.lower
        highlight_index ==
            ResolveHighlightIndex(map_hoverData, upper_hoverData,
                                  lower_hoverData, cross_upper_hoverData,
                                  cross_lower_hoverData, Len(d))
        r == calculate_consistent_ranges(d, upper_col, lower_col, x_axis_column)
        upper_fig ==
            create_scatter_plot(d, upper_col, x_axis_column, highlight_index,
                                r[1], r[2], r[3],
                                get_axis_title(x_axis_column),
                                get_axis_title(upper_col))
        lower_fig ==
            create_scatter_plot(d, lower_col, x_axis_column, highlight_index,
                                r[1], r[2], r[3],
                                get_axis_title(x_axis_column),
                                get_axis_title(lower_col))
        cross_upper_fig ==
            create_cross_scatter_plot(d, "legislator_rate",
                                      "against_recall_rate", highlight_index)
        cross_lower_fig ==
            create_cross_scatter_plot(d, "legislator_vote",
                                      "against_recall_vote", highlight_index)
    IN  IF MapUpdateRaises(d, main, highlight_index, current_map_fig)
        THEN [ raised |-> TRUE, resolved |-> TRUE,
               highlight_index |-> highlight_index, value |-> <<>> ]
        ELSE [ raised |-> FALSE, resolved |-> TRUE,
               highlight_index |-> highlight_index,
               value |-> << upper_fig, lower_fig, cross_upper_fig,
                            cross_lower_fig,
                            MapUpdate(d, main, highlight_index,
                                      current_map_fig) >> ]

\* update_map(selected_column): get_axis_title is evaluated for the
\* colorbar_title argument before create_map_plot is entered
update_map(d, selected_column) ==
    IF get_axis_title_raises(selected_column)
    THEN [raised |-> TRUE, value |-> <<>>]
    ELSE [raised |-> FALSE,
          value |-> << create_map_plot(d, selected_column, <<>>,
                                       get_axis_title(selected_column)) >>]

\* faulty variant: update_scatter returns the upper figure alone
update_scatter_UpperOnly(d, y_axis_type, x_axis_column) ==
    IF Falsy(y_axis_type) \/ Falsy(x_axis_column)
    THEN [raised |-> FALSE, value |-> << EmptyFigure >>]
    ELSE [raised |-> FALSE,
          value |-> << create_scatter_plot(
                           d, scatter_configs[y_axis_type].upper, x_axis_column,
                           <<>>, <<>>, <<>>, <<>>,
                           get_axis_title(x_axis_column),
                           get_axis_title(scatter_configs[y_axis_type].upper)) >>]

\* faulty variant: update_scatter draws both plots without shared ranges
update_scatter_Unranged(d, y_axis_type, x_axis_column) ==
    IF Falsy(y_axis_type) \/ Falsy(x_axis_column)
    THEN [raised |-> FALSE, value |-> << EmptyFigure, EmptyFigure >>]
    ELSE [raised |-> FALSE,
          value |-> << create_scatter_plot(
                           d, scatter_configs[y_axis_type].upper, x_axis_column,
                           <<>>, <<>>, <<>>, <<>>,
                           get_axis_title(x_axis_column),
                           get_axis_title(scatter_configs[y_axis_type].upper)),
                       create_scatter_plot(
                           d, scatter_configs[y_axis_type].lower, x_axis_column,
                           <<>>, <<>>, <<>>, <<>>,
                           get_axis_title(x_axis_column),
                           get_axis_title(scatter_configs[y_axis_type].lower)) >>]

\* update_scatter(y_axis_type, x_axis_column): <<upper_fig, lower_fig>>
update_scatter(d, y_axis_type, x_axis_column) ==
    IF Falsy(y_axis_type) \/ Falsy(x_axis_column)
    THEN [raised |-> FALSE, value |-> << EmptyFigure, EmptyFigure >>]
    ELSE
    LET config == scatter_configs[y_axis_type]
        r == calculate_consistent_ranges(d, config.upper, config.lower,
                                         x_axis_column)
    IN  [raised |-> FALSE,
         value |-> << create_scatter_plot(d, config.upper, x_axis_column, <<>>,
                                          r[1], r[2], r[3],
                                          get_axis_title(x_axis_column),
                                          get_axis_title(config.upper)),
                      create_scatter_plot(d, config.lower, x_axis_column, <<>>,
                                          r[1], r[2], r[3],
                                          get_axis_title(x_axis_column),
                                          get_axis_title(config.lower)) >>]

-----------------------------------------------------------------------------
(* The session: the layout, then one callback per user interaction *)

\* the values a user can give the three controls (clearing a dropdown gives
\* None); the map measure is drawn from one rate and one count column of the
\* dropdown's options
MapMeasures == {None, "legislator_rate", "legislator_vote"}

\* a rate pair and a count pair of scatter_configs
Categories == {None, "Support vote rate", "Support vote"}

XAxisChoices == {None} \cup x_axis_options

\* the hover events a chart can report over a dataset of n rows: a point
\* index, also one below and one beyond the rows
HoverEvents(n) == {HoverPoint(k) : k \in (0 - 1)..n}

\* no render function has been called directly
NoCall ==
    [ fn |-> "none", x_column |-> "", y_column |-> "", highlight_index |-> <<>>,
      current |-> <<>>, raised |-> FALSE, result |-> EmptyFigure ]

\* create_map_data_layout(df): the control values and the figures of the
\* five dcc.Graph components; every hoverData starts as None
LayoutState ==
    /\ main_dropdown = "legislator_rate"
    /\ y_axis_dropdown = "Support vote rate"
    /\ x_axis_dropdown = "legislator_total_voter_density"
    /\ hoverData = [c \in Charts |-> NoHover]
    /\ figure =
         [c \in Charts |->
            IF c = "map-graph"
            THEN create_map_plot(df, "legislator_rate", <<>>, <<>>)
            ELSE IF c = "upper-scatter" THEN create_initial_scatter_plots(df)[1]
            ELSE IF c = "lower-scatter" THEN create_initial_scatter_plots(df)[2]
            ELSE IF c = "cross-upper-scatter"
            THEN create_initial_cross_scatter_plots(df)[1]
            ELSE create_initial_cross_scatter_plots(df)[2]]
    /\ last = [ op |-> "layout", chart |-> "", raised |-> FALSE,
                resolved |-> FALSE, highlight_index |-> <<>>,
                returned |-> 0, updated |-> {} ]
    /\ nEvents = 0
    /\ call = NoCall

\* the data_processing scripts are separate programs: while the dashboard
\* runs, none of them does
ScrapersIdle ==
    /\ recall = [pc |-> "idle"]
    /\ polling = [pc |-> "idle"]
    /\ disk = [csv |-> <<>>, json |-> <<>>, exists |-> FALSE]
    /\ site = [districts |-> <<>>, regions |-> <<>>]
    /\ faults = 0

\* dashboard.py: the dataset is loaded, then the layout is built from it
Init == df = Dataset(MaxRows) /\ LayoutState /\ ScrapersIdle

\* the Outputs of the hover callback, in order
HoverOutputs ==
    << "upper-scatter", "lower-scatter", "cross-upper-scatter",
       "cross-lower-scatter", "map-graph" >>

\* Dash delivers a callback's return value only when no exception was raised
\* and the number of values returned is the number of Outputs; otherwise the
\* request fails and no figure changes
Delivered(ret, outputs) == ~ret.raised /\ Len(ret.value) = Len(outputs)

ApplyOutputs(fig, ret, outputs) ==
    IF Delivered(ret, outputs)
    THEN [c \in Charts |->
            IF \E k \in 1..Len(outputs) : outputs[k] = c
            THEN ret.value[CHOOSE k \in 1..Len(outputs) : outputs[k] = c]
            ELSE fig[c]]
    ELSE fig

UpdatedOutputs(ret, outputs) ==
    IF Delivered(ret, outputs)
    THEN {outputs[k] : k \in 1..Len(outputs)}
    ELSE {}

\* the user hovers chart c, which reports event e: the chart's hoverData is
\* replaced (the other charts keep theirs) and the hover callback runs with
\* the five hoverData as Inputs and the controls and the map figure as State
Hover(c, e) ==
    /\ nEvents < MaxEvents
    /\ hoverData' = [hoverData EXCEPT ![c] = e]
    /\ \E ret \in { update_all_visualizations_with_highlight(
                      df, hoverData'["map-graph"], hoverData'["upper-scatter"],
                      hoverData'["lower-scatter"],
                      hoverData'["cross-upper-scatter"],
                      hoverData'["cross-lower-scatter"],
                      y_axis_dropdown, x_axis_dropdown, main_dropdown,
                      << figure["map-graph"] >>) } :
           /\ figure' = ApplyOutputs(figure, ret, HoverOutputs)
           /\ last' = [ op |-> "hover", chart |-> c,
                        raised |-> ~Delivered(ret, HoverOutputs),
                        resolved |-> ret.resolved,
                        highlight_index |-> ret.highlight_index,
                        returned |-> Len(ret.value),
                        updated |-> UpdatedOutputs(ret, HoverOutputs) ]
    /\ nEvents' = nEvents + 1
    /\ UNCHANGED <<df, main_dropdown, y_axis_dropdown, x_axis_dropdown, call>>
    /\ UNCHANGED scraperVars

\* the user sets the map measure control: update_map runs
SelectMapMeasure(v) ==
    /\ nEvents < MaxEvents
    /\ main_dropdown' = v
    /\ \E ret \in { update_map(df, v) } :
           /\ figure' = ApplyOutputs(figure, ret, << "map-graph" >>)
           /\ last' = [ op |-> "update_map", chart |-> "",
                        raised |-> ~Delivered(ret, << "map-graph" >>),
                        resolved |-> FALSE, highlight_index |-> <<>>,
                        returned |-> Len(ret.value),
                        updated |-> UpdatedOutputs(ret, << "map-graph" >>) ]
    /\ nEvents' = nEvents + 1
    /\ UNCHANGED <<df, y_axis_dropdown, x_axis_dropdown, hoverData, call>>
    /\ UNCHANGED scraperVars

ScatterOutputs == << "upper-scatter", "lower-scatter" >>

\* the common part of a change of either scatter control: update_scatter runs
\* with the new pair of values
RunUpdateScatter(y, x) ==
    \E ret \in { update_scatter(df, y, x) } :
        /\ figure' = ApplyOutputs(figure, ret, ScatterOutputs)
        /\ last' = [ op |-> "update_scatter", chart |-> "",
                     raised |-> ~Delivered(ret, ScatterOutputs),
                     resolved |-> FALSE, highlight_index |-> <<>>,
                     returned |-> Len(ret.value),
                     updated |-> UpdatedOutputs(ret, ScatterOutputs) ]

\* the user sets the scatter category control
SelectCategory(v) ==
    /\ nEvents < MaxEvents
    /\ y_axis_dropdown' = v
    /\ RunUpdateScatter(v, x_axis_dropdown)
    /\ nEvents' = nEvents + 1
    /\ UNCHANGED <<df, main_dropdown, x_axis_dropdown, hoverData, call>>
    /\ UNCHANGED scraperVars

\* the user sets the scatter x-axis control
SelectXAxis(v) ==
    /\ nEvents < MaxEvents
    /\ x_axis_dropdown' = v
    /\ RunUpdateScatter(y_axis_dropdown, v)
    /\ nEvents' = nEvents + 1
    /\ UNCHANGED <<df, main_dropdown, y_axis_dropdown, hoverData, call>>
    /\ UNCHANGED scraperVars

Next ==
    \/ \E c \in Charts : \E e \in HoverEvents(Len(df)) : Hover(c, e)
    \/ \E v \in MapMeasures : SelectMapMeasure(v)
    \/ \E v \in Categories : SelectCategory(v)
    \/ \E v \in XAxisChoices : SelectXAxis(v)

Spec == Init /\ [][Next]_vars

-----------------------------------------------------------------------------
(* What the charts show, read off the figures *)

\* the fixed order of the spec: map, upper, lower, cross-upper, cross-lower
PriorityOrder ==
    << "map-graph", "upper-scatter", "lower-scatter",
       "cross-upper-scatter", "cross-lower-scatter" >>

Rank(c) == CHOOSE k \in 1..Len(PriorityOrder) : PriorityOrder[k] = c

\* chart c holds a hover event that carries a point index
EventPresent(c) == \E k \in (0 - 1)..Len(df) : hoverData[c] = HoverPoint(k)

\* chart c holds a hover event whose point index is one of the rows
EventValid(c) == \E k \in 0..(Len(df) - 1) : hoverData[c] = HoverPoint(k)

EventIndex(c) == hoverData[c].points[1].pointIndex

\* c is the chart of highest priority among those satisfying P
FirstOf(c, P(_)) == P(c) /\ \A o \in Charts : P(o) => Rank(c) <= Rank(o)

ControlsSet ==
    ~Falsy(y_axis_dropdown) /\ ~Falsy(x_axis_dropdown) /\ ~Falsy(main_dropdown)

\* the rows (positional indices) at whose position overlay trace t of a
\* scatter figure lies: the figure's base trace lists the rows in order
ScatterTraceRows(fig, t) ==
    { i \in 0..(Len(df) - 1) :
        /\ t.x = << fig.data[1].x[i + 1] >>
        /\ t.y = << fig.data[1].y[i + 1] >> }

\* the rows one of whose member polygons overlay trace t of the map outlines
MapTraceRows(t) ==
    { i \in 0..(Len(df) - 1) :
        \E g \in 1..Len(df[i + 1].geometry.geoms) :
            LET ring == df[i + 1].geometry.geoms[g]
            IN  /\ t.x = [j \in 1..Len(ring) |-> ring[j][1]]
                /\ t.y = [j \in 1..Len(ring) |-> ring[j][2]] }

TraceRows(c, t) ==
    IF c = "map-graph" THEN MapTraceRows(t) ELSE ScatterTraceRows(figure[c], t)

\* the rows highlighted in chart c
HighlightedRows(c) ==
    UNION { TraceRows(c, Overlays(figure[c])[k]) :
              k \in 1..Len(Overlays(figure[c])) }

-----------------------------------------------------------------------------
(* Claims about the session *)

\* C1: when two or more charts hold a hover event and every such event
\* carries a valid point index, the index resolved by the hover callback is
\* the one of the present event of highest priority (map, upper, lower,
\* cross-upper, cross-lower).
C1_PriorityWins ==
    ( /\ last.op = "hover"
      /\ last.resolved
      /\ Cardinality({c \in Charts : EventPresent(c)}) >= 2
      /\ \A c \in Charts : EventPresent(c) => EventValid(c) )
    => \E c \in Charts :
          /\ FirstOf(c, EventPresent)
          /\ last.highlight_index = << EventIndex(c) >>

\* C1 witness: map hovered at row 0 and a scatter at row 1, resolved to 0
C1_Witness ==
    /\ last.op = "hover"
    /\ last.resolved
    /\ hoverData["map-graph"] = HoverPoint(0)
    /\ hoverData["lower-scatter"] = HoverPoint(1)
    /\ last.highlight_index = << 0 >>

\* C2: with every chart keeping its latest hover event, the render cycle
\* triggered by hovering row i of any chart highlights row i in all five
\* charts (stated for the cycles in which all three controls have a value
\* and every retained event carries a valid index).
C2_HoveredRowHighlightedEverywhere ==
    \A i \in 0..(Len(df) - 1) :
        ( /\ last.op = "hover"
          /\ ControlsSet
          /\ \A c \in Charts : EventPresent(c) => EventValid(c)
          /\ hoverData[last.chart] = HoverPoint(i) )
        => \A c \in Charts : HighlightedRows(c) = {i}

\* C3: the events are consulted in priority order and the first that is
\* present and carries a valid index wins, an out-of-bounds event being
\* passed over; no highlight only if no chart holds a valid event.
C3_FirstValidEventWins ==
    (last.op = "hover" /\ last.resolved)
    => IF \E c \in Charts : EventValid(c)
       THEN \E c \in Charts :
               /\ FirstOf(c, EventValid)
               /\ last.highlight_index = << EventIndex(c) >>
       ELSE last.highlight_index = <<>>

\* the hover event the if/elif chain selects is out of bounds
SelectedEventOutOfBounds ==
    \E c \in Charts : FirstOf(c, EventPresent) /\ ~EventValid(c)

\* C4: in every render cycle in which the selected hover event carries an
\* index below 0 or not below the row count, the hover callback raises
\* nothing, delivers all five charts, and none of them has a highlight
\* overlay.
C4_OutOfBoundsIsNoHighlight ==
    (last.op = "hover" /\ last.resolved /\ SelectedEventOutOfBounds)
    => /\ ~last.raised
       /\ last.updated = Charts
       /\ \A c \in Charts : Overlays(figure[c]) = <<>>

\* C4 witness: the selected event is out of bounds while a chart of lower
\* priority holds a valid one, after an earlier cycle
C4_Witness ==
    /\ last.op = "hover"
    /\ last.resolved
    /\ SelectedEventOutOfBounds
    /\ \E o \in Charts : EventValid(o)
    /\ nEvents >= 2

\* C5: in every reachable state all five charts show the same highlight:
\* overlays for the same row in all of them, or no overlay in any.
C5_ChartsMutuallyConsistent ==
    \A c1, c2 \in Charts :
        /\ HighlightedRows(c1) = HighlightedRows(c2)
        /\ (Overlays(figure[c1]) = <<>>) <=> (Overlays(figure[c2]) = <<>>)

C7_AtMostOneHighlightedRow ==
    /\ Cardinality(UNION { HighlightedRows(c) : c \in Charts }) <= 1
    /\ \A c \in Charts : \A k \in 1..Len(Overlays(figure[c])) :
           TraceRows(c, Overlays(figure[c])[k]) # {}

\* C7 witness: row 1 highlighted in all charts by a hover that followed an
\* earlier hover of row 0 on the same chart
C7_Witness ==
    /\ last.op = "hover"
    /\ nEvents >= 2
    /\ hoverData[last.chart] = HoverPoint(1)
    /\ \A c \in Charts : HighlightedRows(c) = {1}
    /\ \A c \in Charts \ {last.chart} : hoverData[c] = NoHover

\* C10: a hover while any of the three controls has no value makes the
\* hover callback return an empty chart for each of its five outputs,
\* without an error.
C10_MissingSelectionGivesFiveEmptyCharts ==
    (last.op = "hover" /\ ~ControlsSet)
    => /\ ~last.raised
       /\ last.returned = Len(HoverOutputs)
       /\ \A c \in Charts : figure[c] = EmptyFigure

\* C11: when the map measure control is cleared, the map refresh it triggers
\* (update_map) raises nothing and returns an empty chart for the map.
C11_ClearedMapMeasureGivesEmptyMap ==
    (last.op = "update_map" /\ main_dropdown = None)
    => /\ ~last.raised
       /\ figure["map-graph"] = EmptyFigure

\* both scatter controls have a value
ScatterSelectionSet == ~Falsy(y_axis_dropdown) /\ ~Falsy(x_axis_dropdown)

\* the upper and lower measure of the selected category are both rates
RatePairSelected ==
    /\ ContainsRate(scatter_configs[y_axis_dropdown].upper)
    /\ ContainsRate(scatter_configs[y_axis_dropdown].lower)

\* the larger of the observed maxima of the two selected measures
SelectedPairMax ==
    Max2(ColMax(df, scatter_configs[y_axis_dropdown].upper),
         ColMax(df, scatter_configs[y_axis_dropdown].lower))

\* C14: after the layout and after every hover and scatter refresh the upper
\* and the lower scatter plot carry the same y-range and the same color
\* range, and when the selected measures are not both rates that range is
\* [0, max(upper column max, lower column max) * 1.05] for both.
C14_SharedRangeForCountPairs ==
    LET up == figure["upper-scatter"].layout
        lo == figure["lower-scatter"].layout
    IN  /\ up.yaxis_range = lo.yaxis_range
        /\ up.range_color = lo.range_color
        /\ (ScatterSelectionSet /\ ~RatePairSelected)
             => /\ up.yaxis_range = << 0, SelectedPairMax * 105 >>
                /\ up.range_color = << 0, SelectedPairMax * 105 >>

\* C14 witness: a hover cycle with the vote counts selected, whose lower
\* measure has the larger maximum
C14_Witness ==
    /\ last.op = "hover"
    /\ last.updated = Charts
    /\ y_axis_dropdown = "Support vote"
    /\ ColMax(df, "against_recall_vote") > ColMax(df, "legislator_vote")
    /\ figure["upper-scatter"].layout.yaxis_range =
         << 0, ColMax(df, "against_recall_vote") * 105 >>

\* the x-range, the y-range and the color range a chart is drawn with
RangesOf(fig) ==
    << fig.layout.xaxis_range, fig.layout.yaxis_range, fig.layout.range_color >>

C18_RangesStableUnderHover ==
    [][ (last'.op = "hover" /\ nEvents' # nEvents)
        => \A c \in Charts : RangesOf(figure'[c]) = RangesOf(figure[c]) ]_vars

\* C18 witness: a hover that re-rendered all five charts after both the
\* scatter category and the map measure had been changed
C18_Witness ==
    /\ last.op = "hover"
    /\ last.updated = Charts
    /\ y_axis_dropdown = "Support vote"
    /\ main_dropdown = "legislator_vote"

\* C19: the dataset is the one loaded at start in every reachable state, and
\* the base trace of every chart drawn lists every row once, in positional
\* order.
C19_DatasetReadOnly ==
    /\ df = Dataset(MaxRows)
    /\ \A c \in {"upper-scatter", "lower-scatter"} :
          figure[c] # EmptyFigure
          => /\ ScatterSelectionSet
             /\ figure[c].data[1].x = Column(df, x_axis_dropdown)
             /\ figure[c].data[1].y =
                  Column(df, IF c = "upper-scatter"
                             THEN scatter_configs[y_axis_dropdown].upper
                             ELSE scatter_configs[y_axis_dropdown].lower)
    /\ figure["cross-upper-scatter"].data[1].x = Column(df, "legislator_rate")
    /\ figure["cross-upper-scatter"].data[1].y = Column(df, "against_recall_rate")
    /\ figure["cross-lower-scatter"].data[1].x = Column(df, "legislator_vote")
    /\ figure["cross-lower-scatter"].data[1].y = Column(df, "against_recall_vote")
    /\ figure["map-graph"].data[1].x = [i \in 1..Len(df) |-> i - 1]
    /\ \E m \in MapMeasures \ {None} :
          figure["map-graph"].data[1].y = Column(df, m)

\* C19 witness: every kind of callback has run and the last one re-rendered
\* all five charts
C19_Witness ==
    /\ nEvents = MaxEvents
    /\ last.op = "hover"
    /\ last.updated = Charts
    /\ x_axis_dropdown = "recall_vote_total_voter_density"
    /\ main_dropdown = "legislator_vote"

\* the traces of a sequence that are not highlight overlays, in order
NonOverlays(data) == SelectSeq(data, LAMBDA trace : ~IsHighlightTrace(trace))

\* C20: a hover cycle that renders the map keeps every trace of the previous
\* map that is not a highlight overlay, unchanged and in order, removes every
\* overlay of the previous map, and appends after the kept traces only
\* overlays of the row now resolved, one per member polygon, or none when
\* there is no highlight.
C20_NoStaleMapOverlays ==
    [][ (last'.op = "hover" /\ nEvents' # nEvents /\ last'.updated = Charts)
        => LET kept == NonOverlays(figure["map-graph"].data)
               new  == figure'["map-graph"].data
               ov   == SubSeq(new, Len(kept) + 1, Len(new))
           IN  /\ Len(new) >= Len(kept)
               /\ SubSeq(new, 1, Len(kept)) = kept
               /\ \A k \in 1..Len(ov) : IsHighlightTrace(ov[k])
               /\ IF last'.highlight_index = <<>>
                  THEN ov = <<>>
                  ELSE /\ Len(ov) =
                            Len(Iloc(df, last'.highlight_index[1]).geometry.geoms)
                       /\ \A k \in 1..Len(ov) :
                            MapTraceRows(ov[k]) = { last'.highlight_index[1] } ]_vars

\* C20 witness: the map shows the single outline of row 0 after a hover of
\* the map, the upper scatter having been hovered at the two-member row 1
\* in the cycle before
C20_Witness ==
    /\ nEvents = 2
    /\ last.op = "hover"
    /\ last.chart = "map-graph"
    /\ last.updated = Charts
    /\ hoverData["upper-scatter"] = HoverPoint(1)
    /\ last.highlight_index = << 0 >>
    /\ Len(Overlays(figure["map-graph"])) = 1

\* the y-column of a scatter chart of the dashboard under the selection
ScatterYColumn(c) ==
    IF c = "upper-scatter" THEN scatter_configs[y_axis_dropdown].upper
    ELSE scatter_configs[y_axis_dropdown].lower

\* C21 as stated: every scatter chart the dashboard shows colors a rate
\* y-column on the red-yellow-green scale with color bounds exactly [0, 1]
\* and any other y-column on the sequential scale with color bounds exactly
\* [0, maximum of that y-column].
C21_ColorBoundsByColumn ==
    \A c \in {"upper-scatter", "lower-scatter"} :
        (ScatterSelectionSet /\ figure[c] # EmptyFigure)
        => IF ContainsRate(ScatterYColumn(c))
           THEN /\ figure[c].layout.color_scale = "RdYlGn"
                /\ figure[c].layout.range_color = << 0, 10000 >>
           ELSE /\ figure[c].layout.color_scale = "Viridis"
                /\ figure[c].layout.range_color =
                     << 0, ColMax(df, ScatterYColumn(c)) * 100 >>

\* C21 amended: every scatter chart the dashboard shows colors a rate
\* y-column on the red-yellow-green scale and any other y-column on the
\* sequential scale, and its color bounds are the shared color range of the
\* selected pair: [0, 1.05] for a pair of rates, otherwise
\* [0, max(upper column max, lower column max) * 1.05].
C21_ColorScaleByColumnSharedBounds ==
    \A c \in {"upper-scatter", "lower-scatter"} :
        (ScatterSelectionSet /\ figure[c] # EmptyFigure)
        => IF ContainsRate(ScatterYColumn(c))
           THEN /\ figure[c].layout.color_scale = "RdYlGn"
                /\ figure[c].layout.range_color = << 0, 10500 >>
           ELSE /\ figure[c].layout.color_scale = "Viridis"
                /\ figure[c].layout.range_color = << 0, SelectedPairMax * 105 >>

\* C21 witness: the rates drawn by a scatter refresh that followed a refresh
\* for the vote counts
C21_Witness ==
    /\ last.op = "update_scatter"
    /\ nEvents >= 2
    /\ y_axis_dropdown = "Support vote rate"
    /\ figure["lower-scatter"].layout.color_scale = "RdYlGn"
    /\ figure["lower-scatter"].layout.range_color = << 0, 10500 >>

\* C22: a change of the scatter category or x-axis control replaces the
\* upper and the lower scatter chart by charts without highlight overlay,
\* drawn with the shared ranges of the new selection; a change of the map
\* measure control replaces the map by a choropleth of the new measure
\* without highlight overlay; whatever hover events the charts still hold.
C22_RefreshClearsHighlights ==
    /\ last.op = "update_scatter"
         => /\ last.updated = {"upper-scatter", "lower-scatter"}
            /\ Overlays(figure["upper-scatter"]) = <<>>
            /\ Overlays(figure["lower-scatter"]) = <<>>
            /\ ScatterSelectionSet
                 => RangesOf(figure["upper-scatter"]) =
                      calculate_consistent_ranges(
                          df, scatter_configs[y_axis_dropdown].upper,
                          scatter_configs[y_axis_dropdown].lower, x_axis_dropdown)
    /\ last.op = "update_map"
         => /\ Overlays(figure["map-graph"]) = <<>>
            /\ main_dropdown # None
                 => figure["map-graph"].data = << ChoroplethBase(df, main_dropdown) >>

\* C24: the map a hover cycle produces by the incremental path has the base
\* choropleth (measure, color scale, color range) and the overlay traces of
\* create_map_plot called from scratch with the dataset, the selected map
\* measure and the resolved highlight index.
C24_IncrementalMapIsRebuild ==
    (last.op = "hover" /\ last.updated = Charts)
    => LET rebuilt == create_map_plot(df, main_dropdown, last.highlight_index,
                                      get_axis_title(main_dropdown))
           shown == figure["map-graph"]
       IN  /\ shown.data = rebuilt.data
           /\ shown.layout.color_scale = rebuilt.layout.color_scale
           /\ shown.layout.range_color = rebuilt.layout.range_color
           /\ shown.layout.title = rebuilt.layout.title

\* C24 witness: the measure was changed to the vote counts, then the map
\* was hovered twice, last at the two-member row 1
C24_Witness ==
    /\ nEvents = MaxEvents
    /\ last.op = "hover"
    /\ last.updated = Charts
    /\ main_dropdown = "legislator_vote"
    /\ last.highlight_index = << 1 >>
    /\ Len(Overlays(figure["map-graph"])) = 2

-----------------------------------------------------------------------------
(* The render functions called directly: one call per behaviour, its         *)
(* arguments drawn from the columns, the highlight indices and the previous  *)
(* map figures of a dataset of 1..MaxRows rows                               *)

MeasureColumns ==
    { scatter_configs[k].upper : k \in DOMAIN scatter_configs } \cup
    { scatter_configs[k].lower : k \in DOMAIN scatter_configs }

\* an optional highlight index over n rows: None, a row, or out of bounds
HighlightChoices(n) == { <<>> } \cup { << k >> : k \in (0 - 1)..n }

\* the column pairs the dashboard gives create_cross_scatter_plot
CrossPairs ==
    { << "legislator_rate", "against_recall_rate" >>,
      << "legislator_vote", "against_recall_vote" >> }

\* the map figures a hover callback can be handed as State: none, or a map
\* rendered earlier with or without a highlight
PreviousMaps(d) ==
    { <<>> } \cup
    { << create_map_plot(d, m, h, get_axis_title(m)) >> :
        m \in MapMeasures \ {None}, h \in HighlightChoices(Len(d)) }

RenderInit ==
    df \in { Dataset(n) : n \in 1..MaxRows } /\ LayoutState /\ ScrapersIdle

CallScatter(y, x, h, ranged) ==
    /\ call = NoCall
    /\ \E r \in { IF ranged THEN calculate_consistent_ranges(df, y, y, x)
                  ELSE << <<>>, <<>>, <<>> >> } :
         call' = [ fn |-> "create_scatter_plot", x_column |-> x,
                   y_column |-> y, highlight_index |-> h, current |-> <<>>,
                   raised |-> FALSE,
                   result |-> create_scatter_plot(df, y, x, h, r[1], r[2], r[3],
                                                  get_axis_title(x),
                                                  get_axis_title(y)) ]
    /\ UNCHANGED <<df, main_dropdown, y_axis_dropdown, x_axis_dropdown,
                   hoverData, figure, last, nEvents>>
    /\ UNCHANGED scraperVars

CallCrossScatter(p, h) ==
    /\ call = NoCall
    /\ call' = [ fn |-> "create_cross_scatter_plot", x_column |-> p[1],
                 y_column |-> p[2], highlight_index |-> h, current |-> <<>>,
                 raised |-> FALSE,
                 result |-> create_cross_scatter_plot(df, p[1], p[2], h) ]
    /\ UNCHANGED <<df, main_dropdown, y_axis_dropdown, x_axis_dropdown,
                   hoverData, figure, last, nEvents>>
    /\ UNCHANGED scraperVars

CallMap(m, h) ==
    /\ call = NoCall
    /\ call' = [ fn |-> "create_map_plot", x_column |-> "", y_column |-> m,
                 highlight_index |-> h, current |-> <<>>, raised |-> FALSE,
                 result |-> create_map_plot(df, m, h, <<>>) ]
    /\ UNCHANGED <<df, main_dropdown, y_axis_dropdown, x_axis_dropdown,
                   hoverData, figure, last, nEvents>>
    /\ UNCHANGED scraperVars

\* the hover callback called with a map and an upper-scatter event, the
\* layout's control values but for the map measure m, and a previous map
CallHover(em, eu, m, prev) ==
    /\ call = NoCall
    /\ \E ret \in { update_all_visualizations_with_highlight(
                        df, em, eu, NoHover, NoHover, NoHover, y_axis_dropdown,
                        x_axis_dropdown, m, prev) } :
         call' = [ fn |-> "update_all_visualizations_with_highlight",
                   x_column |-> "", y_column |-> m,
                   highlight_index |-> ret.highlight_index, current |-> prev,
                   raised |-> ~Delivered(ret, HoverOutputs),
                   result |-> IF Delivered(ret, HoverOutputs)
                              THEN ret.value[Len(HoverOutputs)]
                              ELSE EmptyFigure ]
    /\ UNCHANGED <<df, main_dropdown, y_axis_dropdown, x_axis_dropdown,
                   hoverData, figure, last, nEvents>>
    /\ UNCHANGED scraperVars

\* calculate_consistent_ranges called on its own for an upper, a lower and
\* an x-axis column; the record keeps the tuple returned
CallRanges(u, l, x) ==
    /\ call = NoCall
    /\ call' = [ fn |-> "calculate_consistent_ranges", x_column |-> x,
                 y_column |-> u, lower_col |-> l, highlight_index |-> <<>>,
                 current |-> <<>>, raised |-> FALSE, result |-> EmptyFigure,
                 ranges |-> calculate_consistent_ranges(df, u, l, x) ]
    /\ UNCHANGED <<df, main_dropdown, y_axis_dropdown, x_axis_dropdown,
                   hoverData, figure, last, nEvents>>
    /\ UNCHANGED scraperVars

\* create_scatter_plot called with no column chosen for y or for x, every
\* other argument left at its default
CallScatterNoColumn(y, x) ==
    /\ call = NoCall
    /\ y = None \/ x = None
    /\ call' = [ fn |-> "create_scatter_plot", x_column |-> x, y_column |-> y,
                 highlight_index |-> <<>>, current |-> <<>>,
                 raised |-> create_scatter_plot_raises(y, x, <<>>),
                 result |-> IF create_scatter_plot_raises(y, x, <<>>)
                            THEN EmptyFigure
                            ELSE create_scatter_plot(df, y, x, <<>>, <<>>, <<>>,
                                                     <<>>, <<>>, <<>>) ]
    /\ UNCHANGED <<df, main_dropdown, y_axis_dropdown, x_axis_dropdown,
                   hoverData, figure, last, nEvents>>
    /\ UNCHANGED scraperVars

\* create_cross_scatter_plot called with no column chosen for x or for y
CallCrossScatterNoColumn(x, y) ==
    /\ call = NoCall
    /\ x = None \/ y = None
    /\ call' = [ fn |-> "create_cross_scatter_plot", x_column |-> x,
                 y_column |-> y, highlight_index |-> <<>>, current |-> <<>>,
                 raised |-> create_cross_scatter_plot_raises(x, y),
                 result |-> IF create_cross_scatter_plot_raises(x, y)
                            THEN EmptyFigure
                            ELSE create_cross_scatter_plot(df, x, y, <<>>) ]
    /\ UNCHANGED <<df, main_dropdown, y_axis_dropdown, x_axis_dropdown,
                   hoverData, figure, last, nEvents>>
    /\ UNCHANGED scraperVars

RenderNext ==
    \/ \E y \in MeasureColumns : \E x \in x_axis_options :
         \E h \in HighlightChoices(Len(df)) : \E ranged \in BOOLEAN :
           CallScatter(y, x, h, ranged)
    \/ \E p \in CrossPairs : \E h \in HighlightChoices(Len(df)) :
         CallCrossScatter(p, h)
    \/ \E m \in MapMeasures : \E h \in HighlightChoices(Len(df)) : CallMap(m, h)
    \/ \E em \in HoverEvents(Len(df)) \cup {NoHover, HoverNoPoints} :
         \E eu \in HoverEvents(Len(df)) \cup {NoHover} :
           \E m \in MapMeasures \ {None} : \E prev \in PreviousMaps(df) :
             CallHover(em, eu, m, prev)
    \/ \E u \in MeasureColumns : \E l \in MeasureColumns :
         \E x \in x_axis_options : CallRanges(u, l, x)
    \/ \E y \in MeasureColumns \cup {None} :
         \E x \in x_axis_options \cup {None} : CallScatterNoColumn(y, x)
    \/ \E x \in {"legislator_rate", "legislator_vote", None} :
         \E y \in {"against_recall_rate", "against_recall_vote", None} :
           CallCrossScatterNoColumn(x, y)

RenderSpec == RenderInit /\ [][RenderNext]_vars

-----------------------------------------------------------------------------
(* Claims about the render functions *)

\* the highlight index of the call is row i of the dataset
CallHighlights(i) == call.highlight_index = << i >> /\ 0 <= i /\ i < Len(df)

\* C8: create_scatter_plot and create_cross_scatter_plot called with a valid
\* row index i add exactly one overlay trace, holding exactly one point, at
\* (x-column value of row i, y-column value of row i); called with no
\* highlight index they add no overlay trace.
C8_ScatterOverlays ==
    call.fn \in {"create_scatter_plot", "create_cross_scatter_plot"}
    => /\ \A i \in 0..(Len(df) - 1) :
            CallHighlights(i)
            => /\ Len(Overlays(call.result)) = 1
               /\ Overlays(call.result)[1].x = << df[i + 1][call.x_column] >>
               /\ Overlays(call.result)[1].y = << df[i + 1][call.y_column] >>
       /\ call.highlight_index = <<>> => Overlays(call.result) = <<>>

\* C8 witness: a cross scatter plot rendered with row 1 highlighted
C8_Witness ==
    /\ call.fn = "create_cross_scatter_plot"
    /\ CallHighlights(1)
    /\ Len(Overlays(call.result)) = 1

\* a call that renders the map for a chosen measure
MapRendered ==
    /\ call.fn \in {"create_map_plot", "update_all_visualizations_with_highlight"}
    /\ ~call.raised
    /\ ~Falsy(call.y_column)

\* C9 as stated: rendering the map with a valid highlight index, from
\* scratch or on top of the previous map, places exactly one highlight
\* overlay, and rendering with no highlight places none.
C9_ExactlyOneMapOverlay ==
    MapRendered
    => /\ \A i \in 0..(Len(df) - 1) :
            CallHighlights(i) => Len(Overlays(call.result)) = 1
       /\ call.highlight_index = <<>> => Overlays(call.result) = <<>>

\* C9 amended: rendering the map with a valid highlight index i, from
\* scratch or on top of the previous map, places one overlay trace per member
\* polygon of row i's geometry (one for a Polygon, k for a MultiPolygon of k
\* members), the j-th along the exterior ring of the j-th member, and no
\* other overlay; rendering with no highlight places none.
C9_MapOverlayPerMemberPolygon ==
    MapRendered
    => /\ \A i \in 0..(Len(df) - 1) :
            CallHighlights(i)
            => LET geoms == df[i + 1].geometry.geoms
                   ov == Overlays(call.result)
               IN  /\ Len(ov) = Len(geoms)
                   /\ df[i + 1].geometry.geom_type = "Polygon" => Len(ov) = 1
                   /\ \A j \in 1..Len(ov) :
                        /\ ov[j].x = [k \in 1..Len(geoms[j]) |-> geoms[j][k][1]]
                        /\ ov[j].y = [k \in 1..Len(geoms[j]) |-> geoms[j][k][2]]
       /\ call.highlight_index = <<>> => Overlays(call.result) = <<>>

\* C9 witness: the hover callback moves the highlight of a previous map from
\* row 0 to the two-member MultiPolygon of row 1
C9_Witness ==
    /\ call.fn = "update_all_visualizations_with_highlight"
    /\ ~call.raised
    /\ call.current # <<>>
    /\ Len(Overlays(call.current[1])) = 1
    /\ CallHighlights(1)
    /\ Len(Overlays(call.result)) = 2

\* C12: create_scatter_plot and create_cross_scatter_plot called with no
\* column chosen (a column argument of None) raise nothing and return an
\* empty chart.
C12_NoColumnGivesEmptyChart ==
    ( /\ call.fn \in {"create_scatter_plot", "create_cross_scatter_plot"}
      /\ (call.x_column = None \/ call.y_column = None) )
    => /\ ~call.raised
       /\ call.result = EmptyFigure

\* a call of calculate_consistent_ranges on its own
RangesCalled == call.fn = "calculate_consistent_ranges"

\* C13: for every dataset and x-axis column, calculate_consistent_ranges
\* called with an upper and a lower measure that both name a rate returns
\* the y-range [0, 1.05] and the color range [0, 1.05], whatever the
\* observed values.
C13_RatePairRange ==
    (RangesCalled /\ ContainsRate(call.y_column) /\ ContainsRate(call.lower_col))
    => /\ call.ranges[2] = << 0, 10500 >>
       /\ call.ranges[3] = << 0, 10500 >>

\* C13 witness: a rate pair whose observed maximum padded by 5% is not 1.05
C13_Witness ==
    /\ RangesCalled
    /\ call.y_column = "legislator_rate"
    /\ call.lower_col = "recall_voting_rate"
    /\ ColMax(df, "legislator_rate") * 105 # 10500
    /\ call.ranges[2] = << 0, 10500 >>

\* C15: for every dataset (all x-axis measures are non-negative) the x-range
\* returned by calculate_consistent_ranges has the observed maximum of the
\* x-axis column times 1.02 as upper bound and a lower bound that is not
\* below 0.
C15_XRangeFlooredAtZero ==
    RangesCalled
    => /\ call.ranges[1][2] = ColMax(df, call.x_column) * 102
       /\ call.ranges[1][1] >= 0

\* the traces of the figure named as the diagonal reference line
Diagonals(fig) ==
    SelectSeq(fig.data, LAMBDA trace : trace.name = <<"Diagonal (y=x)">>)

\* C17: the chart create_cross_scatter_plot returns has the x-axis range and
\* the y-axis range [0, max(x column max, y column max) * 1.05], and its one
\* diagonal trace runs from (lo, lo) to (hi, hi) for that range [lo, hi].
C17_CrossScatterParityLine ==
    (call.fn = "create_cross_scatter_plot" /\ ~call.raised)
    => LET hi == Max2(ColMax(df, call.x_column), ColMax(df, call.y_column)) * 105
           lay == call.result.layout
       IN  /\ lay.xaxis_range = << 0, hi >>
           /\ lay.yaxis_range = << 0, hi >>
           /\ Len(Diagonals(call.result)) = 1
           /\ Diagonals(call.result)[1].x = << 0, hi >>
           /\ Diagonals(call.result)[1].y = << 0, hi >>

\* C17 witness: the vote counts plotted with row 0 highlighted; the range
\* reaches beyond 1
C17_Witness ==
    /\ call.fn = "create_cross_scatter_plot"
    /\ call.x_column = "legislator_vote"
    /\ CallHighlights(0)
    /\ call.result.layout.xaxis_range[2] > 10000
    /\ Diagonals(call.result)[1].x[2] = call.result.layout.xaxis_range[2]

\* the names of the traces of a sequence, in order
TraceNames(traces) == [k \in 1..Len(traces) |-> traces[k].name]

\* C23: the map rendered from scratch or updated by the hover callback with
\* a valid highlight index i carries, for a MultiPolygon of k members,
\* exactly k overlay traces named Highlighted_0 .. Highlighted_(k-1), the
\* j-th along the exterior ring of the j-th member, and for a Polygon exactly
\* one overlay trace named Highlighted; every overlay name starts with the
\* prefix the strip step matches.
C23_MultiPartOverlayNames ==
    MapRendered
    => \A i \in 0..(Len(df) - 1) :
          CallHighlights(i)
          => LET geom == df[i + 1].geometry
                 ov == SelectSeq(call.result.data,
                                 LAMBDA t : t.type = "scattermapbox")
             IN  /\ Len(ov) = Len(geom.geoms)
                 /\ \A j \in 1..Len(ov) :
                      /\ ov[j].x = [k \in 1..Len(geom.geoms[j]) |-> geom.geoms[j][k][1]]
                      /\ ov[j].y = [k \in 1..Len(geom.geoms[j]) |-> geom.geoms[j][k][2]]
                      /\ ~KeepTrace(ov[j])
                 /\ geom.geom_type = "Polygon"
                      => TraceNames(ov) = << <<"Highlighted">> >>
                 /\ geom.geom_type = "MultiPolygon"
                      => TraceNames(ov) =
                           [j \in 1..Len(geom.geoms) |->
                              <<"Highlighted", "_", ToString(j - 1)>>]

\* C23 witness: the map rendered from scratch for the two-member row 1
C23_Witness ==
    /\ call.fn = "create_map_plot"
    /\ ~Falsy(call.y_column)
    /\ CallHighlights(1)
    /\ df[2].geometry.geom_type = "MultiPolygon"
    /\ TraceNames(Overlays(call.result)) =
         << <<"Highlighted", "_", "0">>, <<"Highlighted", "_", "1">> >>

\* C25: the cross scatter chart follows the color rule of the other scatter
\* plots: a pair of rates is colored on the red-yellow-green scale with
\* color bounds [0, 1], a pair of counts on the sequential scale with color
\* bounds [0, maximum of the y-column].
C25_CrossScatterColorRule ==
    (call.fn = "create_cross_scatter_plot" /\ ~call.raised)
    => IF ContainsRate(call.y_column)
       THEN /\ call.result.layout.color_scale = "RdYlGn"
            /\ call.result.layout.range_color = << 0, 10000 >>
       ELSE /\ call.result.layout.color_scale = "Viridis"
            /\ call.result.layout.range_color =
                 << 0, ColMax(df, call.y_column) * 100 >>

-----------------------------------------------------------------------------
(* src/data_processing/1_recall_vote_data_parsing.py: RecallVoteDataParser   *)
(* A run of parse_all_data is a sequence of steps; a step that talks to the  *)
(* browser or to the file system can fail, and the failures of one run are   *)
(* counted in faults.                                                        *)

\* number of polling stations the site lists for a district
MaxStations == 11

\* number of failures of the browser or the file system in one run
MaxFaults == 2

\* "Save incrementally every 10 records"
SaveEvery == 10

\* a record of self.data: the district and station names and the voting
\* data, which is the one read from the file or the one read from the page
Record(district, station, values) ==
    [district |-> district, station |-> station, values |-> values]

\* what the site lists: districts, each with the options of its station
\* selector; one listing has a long district, the other repeats a station
Listings ==
    { << [name |-> "A", stations |-> [i \in 1..MaxStations |-> i]] >>,
      << [name |-> "A", stations |-> << 1, 2, 1 >>],
         [name |-> "B", stations |-> << 1, 2 >>] >> }

\* no two records of the sequence have the same district and station
NoDuplicateKeys(records) ==
    \A i, j \in 1..Len(records) :
        ( /\ records[i].district = records[j].district
          /\ records[i].station = records[j].station ) => i = j

\* the files an earlier run left: none, or the records of the first k
\* stations of the first district
EarlierRuns(listing) ==
    { [k \in 1..n |-> Record(listing[1].name, listing[1].stations[k], "file")] :
        n \in { m \in 0..Len(listing[1].stations) :
                  NoDuplicateKeys([k \in 1..m |->
                      Record(listing[1].name, listing[1].stations[k], "file")]) } }

\* faulty variant: the JSON file is not written
save_data_incrementally_CsvOnly(data, dk, mode) ==
    IF data = <<>> THEN dk
    ELSE [exists |-> TRUE, csv |-> data, json |-> dk.json]

\* save_data_incrementally: the files after the call.  mode is "ok", or
\* "csv" when to_csv raises, or "json" when the CSV is written and the JSON
\* file is opened for writing (truncated) but its dump raises
save_data_incrementally(data, dk, mode) ==
    IF data = <<>> THEN dk
    ELSE IF mode = "ok" THEN [exists |-> TRUE, csv |-> data, json |-> data]
    ELSE IF mode = "csv" THEN dk
    ELSE [exists |-> TRUE, csv |-> data, json |-> <<>>]

\* save_data_incrementally raises
save_raises(data, mode) == data # <<>> /\ mode # "ok"

\* faulty variant: nothing is taken as already extracted
is_data_already_extracted_Never(data, district_name, station_name) == FALSE

\* is_data_already_extracted(district_name, station_name)
is_data_already_extracted(data, district_name, station_name) ==
    \E i \in 1..Len(data) :
        data[i].district = district_name /\ data[i].station = station_name

\* faulty variant: no save between the saves after each district
SaveDue_Never(n) == FALSE

\* len(self.data) % 10 == 0
SaveDue(n) == n % SaveEvery = 0

\* the outcomes of a step: all of them while failures remain in the budget
Outcomes(all) == IF faults < MaxFaults THEN all ELSE {"ok"}

Fault(outcome) == IF outcome = "ok" THEN faults ELSE faults + 1

\* RecallVoteDataParser() and the start of parse_all_data
RecallStart(listing, files) ==
    /\ recall = [ pc |-> "load_existing_data", data |-> <<>>, loaded |-> <<>>,
                  driver |-> "none", districts |-> <<>>, stations |-> <<>>,
                  d |-> 0, s |-> 0, outcome |-> "", save_failed |-> FALSE ]
    /\ disk = [exists |-> files # <<>>, csv |-> files, json |-> files]
    /\ site = [districts |-> listing, regions |-> <<>>]

\* load_existing_data: the records of the CSV file when it exists and is
\* read; self.data stays empty otherwise
LoadExistingData ==
    /\ recall.pc = "load_existing_data"
    /\ \E o \in (IF disk.exists THEN Outcomes({"ok", "raise"}) ELSE {"ok"}) :
         /\ recall' = [recall EXCEPT
                         !.pc = "setup_driver",
                         !.data = IF disk.exists /\ o = "ok" THEN disk.csv ELSE <<>>,
                         !.loaded = IF disk.exists /\ o = "ok" THEN disk.csv ELSE <<>>]
         /\ faults' = Fault(o)
    /\ UNCHANGED <<dashboardVars, polling, disk, site>>

\* setup_driver: webdriver.Chrome can raise before self.driver is assigned,
\* implicitly_wait after it
RecallSetupDriver ==
    /\ recall.pc = "setup_driver"
    /\ \E o \in Outcomes({"ok", "raise_before", "raise_after"}) :
         /\ recall' = [recall EXCEPT
                         !.pc = IF o = "ok" THEN "get_district_list" ELSE "except",
                         !.driver = IF o = "raise_before" THEN "none" ELSE "open"]
         /\ faults' = Fault(o)
    /\ UNCHANGED <<dashboardVars, polling, disk, site>>

\* self.driver.get(self.url), which can raise, then get_district_list, which
\* returns [] when it fails
GetDistrictList ==
    /\ recall.pc = "get_district_list"
    /\ \E o \in Outcomes({"ok", "raise", "empty"}) :
         /\ recall' = [recall EXCEPT
                         !.pc = IF o = "raise" THEN "except" ELSE "district",
                         !.districts = IF o = "ok" THEN site.districts ELSE <<>>,
                         !.d = 1]
         /\ faults' = Fault(o)
    /\ UNCHANGED <<dashboardVars, polling, disk, site>>

\* the head of the loop over the districts: after the last one the data is
\* returned; else the district's element is found, which can raise, and
\* get_polling_stations_for_district lists its stations, [] when it fails
NextDistrict ==
    /\ recall.pc = "district"
    /\ IF recall.d > Len(recall.districts)
       THEN /\ recall' = [recall EXCEPT !.pc = "finally", !.outcome = "returned"]
            /\ UNCHANGED faults
       ELSE \E o \in Outcomes({"ok", "raise", "empty"}) :
              /\ recall' = [recall EXCEPT
                              !.pc = IF o = "raise" THEN "except" ELSE "station",
                              !.stations = IF o = "ok"
                                           THEN recall.districts[recall.d].stations
                                           ELSE <<>>,
                              !.s = 1]
              /\ faults' = Fault(o)
    /\ UNCHANGED <<dashboardVars, polling, disk, site>>

\* one pass of the loop over the stations: a station already extracted is
\* skipped; else its page is selected, which can raise (caught, continue),
\* and extract_voting_data reads it, {} when it fails; a record read is
\* appended and the data saved when due, a save that raises being caught by
\* the same handler
ProcessStation ==
    /\ recall.pc = "station"
    /\ recall.s <= Len(recall.stations)
    /\ LET district_name == recall.districts[recall.d].name
           station_name == recall.stations[recall.s]
           appended == Append(recall.data,
                              Record(district_name, station_name, "page"))
       IN  IF is_data_already_extracted(recall.data, district_name, station_name)
           THEN /\ recall' = [recall EXCEPT !.s = recall.s + 1]
                /\ UNCHANGED <<disk, faults>>
           ELSE \E o \in Outcomes({"ok", "raise", "empty", "csv", "json"}) :
                  /\ o \in {"csv", "json"} => SaveDue(Len(appended))
                  /\ IF o \in {"raise", "empty"}
                     THEN /\ recall' = [recall EXCEPT !.s = recall.s + 1]
                          /\ UNCHANGED disk
                     ELSE /\ recall' = [recall EXCEPT
                                          !.s = recall.s + 1,
                                          !.data = appended,
                                          !.save_failed =
                                              recall.save_failed \/ o # "ok"]
                          /\ disk' = IF SaveDue(Len(appended))
                                     THEN save_data_incrementally(appended, disk, o)
                                     ELSE disk
                  /\ faults' = Fault(o)
    /\ UNCHANGED <<dashboardVars, polling, site>>

\* "Save after each district": a save that raises here leaves the loops
DistrictSave ==
    /\ recall.pc = "station"
    /\ recall.s > Len(recall.stations)
    /\ \E o \in (IF recall.data = <<>> THEN {"ok"}
                  ELSE Outcomes({"ok", "csv", "json"})) :
         /\ disk' = save_data_incrementally(recall.data, disk, o)
         /\ recall' = [recall EXCEPT
                         !.pc = IF save_raises(recall.data, o)
                                THEN "except" ELSE "district",
                         !.d = recall.d + 1,
                         !.save_failed = recall.save_failed \/ o # "ok"]
         /\ faults' = Fault(o)
    /\ UNCHANGED <<dashboardVars, polling, site>>

\* except Exception: "Save any data we have before exiting", return
\* self.data; a save that raises here leaves parse_all_data as an exception
RecallExcept ==
    /\ recall.pc = "except"
    /\ \E o \in (IF recall.data = <<>> THEN {"ok"}
                  ELSE Outcomes({"ok", "csv", "json"})) :
         /\ disk' = save_data_incrementally(recall.data, disk, o)
         /\ recall' = [recall EXCEPT
                         !.pc = "finally",
                         !.outcome = IF save_raises(recall.data, o)
                                     THEN "raised" ELSE "returned",
                         !.save_failed = recall.save_failed \/ o # "ok"]
         /\ faults' = Fault(o)
    /\ UNCHANGED <<dashboardVars, polling, site>>

\* finally: if self.driver: self.driver.quit()
RecallFinally ==
    /\ recall.pc = "finally"
    /\ recall' = [recall EXCEPT
                    !.pc = "done",
                    !.driver = IF recall.driver = "open" THEN "quit"
                               ELSE recall.driver]
    /\ UNCHANGED <<dashboardVars, polling, disk, site, faults>>

RecallNext ==
    \/ LoadExistingData
    \/ RecallSetupDriver
    \/ GetDistrictList
    \/ NextDistrict
    \/ ProcessStation
    \/ DistrictSave
    \/ RecallExcept
    \/ RecallFinally

-----------------------------------------------------------------------------
(* src/data_processing/2_polling_station_parser.py: PollingStationParser,   *)
(* run by main(): parse_all_regions, then                                    *)
(* process_data_with_deduplication_and_geocoding, then save_data             *)

\* what the polling station site lists: regions, each with the rows of its
\* table as <<number, address>>; the same station appears under two regions
RegionListings ==
    { <<>>,
      << [name |-> "R1", rows |-> << <<1, "a">>, <<2, "b">> >>],
         [name |-> "R2", rows |-> << <<1, "a">>, <<3, "c">> >>] >> }

\* the station_data dicts extract_polling_stations_for_region returns
StationsOf(region) ==
    [k \in 1..Len(region.rows) |->
        [region |-> region.name, number |-> region.rows[k][1],
         address |-> region.rows[k][2]]]

\* df.drop_duplicates(subset=['address', 'number'], keep='first')
RECURSIVE DropDuplicates(_, _)
DropDuplicates(records, kept) ==
    IF records = <<>> THEN kept
    ELSE IF \E i \in 1..Len(kept) :
               /\ kept[i].address = Head(records).address
               /\ kept[i].number = Head(records).number
         THEN DropDuplicates(Tail(records), kept)
         ELSE DropDuplicates(Tail(records), Append(kept, Head(records)))

\* identify_duplicates(df)[0]: the unique records
identify_duplicates(records) == DropDuplicates(records, <<>>)

\* PollingStationParser(): setup_geocoding creates the client when the
\* environment holds an API key
PollingStart(listing, api_key) ==
    /\ polling = [ pc |-> "setup_driver", gmaps |-> api_key, driver |-> "none",
                   regions |-> <<>>, r |-> 0, data |-> <<>>,
                   coordinates |-> FALSE, csv |-> <<>>, json |-> <<>>,
                   csv_written |-> FALSE, json_written |-> FALSE,
                   raised_in |-> "" ]
    /\ site = [districts |-> <<>>, regions |-> listing]

\* an exception leaves the function fn and, nothing catching it, main()
Propagate(fn) == [polling EXCEPT !.pc = "raised", !.raised_in = fn]

\* parse_all_regions: self.setup_driver()
PollingSetupDriver ==
    /\ polling.pc = "setup_driver"
    /\ \E o \in Outcomes({"ok", "raise"}) :
         /\ polling' = IF o = "ok"
                       THEN [polling EXCEPT !.pc = "get_available_regions",
                                            !.driver = "open"]
                       ELSE Propagate("parse_all_regions")
         /\ faults' = Fault(o)
    /\ UNCHANGED <<dashboardVars, recall, disk, site>>

\* parse_all_regions: regions = self.get_available_regions(), which can
\* raise; if not regions: raise ValueError
GetAvailableRegions ==
    /\ polling.pc = "get_available_regions"
    /\ \E o \in Outcomes({"ok", "raise"}) :
         /\ polling' = IF o = "ok" /\ site.regions # <<>>
                       THEN [polling EXCEPT !.pc = "region",
                                            !.regions = site.regions, !.r = 1]
                       ELSE Propagate("parse_all_regions")
         /\ faults' = Fault(o)
    /\ UNCHANGED <<dashboardVars, recall, disk, site>>

\* parse_all_regions, one pass of the loop:
\* extract_polling_stations_for_region, which can raise, and
\* self.data.extend(stations)
ExtractRegion ==
    /\ polling.pc = "region"
    /\ polling.r <= Len(polling.regions)
    /\ \E o \in Outcomes({"ok", "raise"}) :
         /\ polling' = IF o = "ok"
                       THEN [polling EXCEPT
                               !.r = polling.r + 1,
                               !.data = polling.data \o
                                        StationsOf(polling.regions[polling.r])]
                       ELSE Propagate("parse_all_regions")
         /\ faults' = Fault(o)
    /\ UNCHANGED <<dashboardVars, recall, disk, site>>

\* close_driver: if self.driver: self.driver.quit()
close_driver(driver) == IF driver = "open" THEN "quit" ELSE driver

\* parse_all_regions after the loop: self.close_driver(), return
ParseAllRegionsReturns ==
    /\ polling.pc = "region"
    /\ polling.r > Len(polling.regions)
    /\ polling' = [polling EXCEPT !.pc = "process",
                                  !.driver = close_driver(polling.driver)]
    /\ UNCHANGED <<dashboardVars, recall, disk, site, faults>>

\* geocode_unique_addresses adds the latitude and longitude columns unless
\* it returns df unchanged because there is no client
geocode_adds_columns(gmaps) == gmaps

\* process_data_with_deduplication_and_geocoding: ValueError when there is
\* no data; the unique records, geocoded when there is a client (a request
\* of the client can raise)
ProcessData ==
    /\ polling.pc = "process"
    /\ \E o \in (IF polling.gmaps /\ polling.data # <<>>
                  THEN Outcomes({"ok", "raise"}) ELSE {"ok"}) :
         /\ polling' =
              IF polling.data = <<>> \/ o = "raise"
              THEN Propagate("process_data_with_deduplication_and_geocoding")
              ELSE [polling EXCEPT
                      !.pc = "save_data",
                      !.data = identify_duplicates(polling.data),
                      !.coordinates = geocode_adds_columns(polling.gmaps)]
         /\ faults' = Fault(o)
    /\ UNCHANGED <<dashboardVars, recall, disk, site>>

\* save_data: ValueError when there is no data; the CSV and the JSON file
\* are written; the summary then reads df['latitude'], a KeyError when the
\* records have no such column
SaveData ==
    /\ polling.pc = "save_data"
    /\ polling' =
         IF polling.data = <<>> THEN Propagate("save_data")
         ELSE [polling EXCEPT
                 !.csv = polling.data, !.json = polling.data,
                 !.csv_written = TRUE, !.json_written = TRUE,
                 !.pc = IF polling.coordinates THEN "done" ELSE "raised",
                 !.raised_in = IF polling.coordinates THEN "" ELSE "save_data"]
    /\ UNCHANGED <<dashboardVars, recall, disk, site, faults>>

PollingNext ==
    \/ PollingSetupDriver
    \/ GetAvailableRegions
    \/ ExtractRegion
    \/ ParseAllRegionsReturns
    \/ ProcessData
    \/ SaveData

\* one of the two scripts is run, the dashboard being just laid out
ScrapeInit ==
    /\ df = Dataset(1)
    /\ LayoutState
    /\ faults = 0
    /\ \/ /\ \E listing \in Listings : \E files \in EarlierRuns(listing) :
                RecallStart(listing, files)
          /\ polling = [pc |-> "idle"]
       \/ /\ \E listing \in RegionListings : \E api_key \in BOOLEAN :
                PollingStart(listing, api_key)
          /\ recall = [pc |-> "idle"]
          /\ disk = [csv |-> <<>>, json |-> <<>>, exists |-> FALSE]

ScrapeNext == RecallNext \/ PollingNext

ScrapeSpec == ScrapeInit /\ [][ScrapeNext]_vars

-----------------------------------------------------------------------------
(* Claims about the data_processing scripts *)

\* the run of parse_all_data has returned self.data
RecallReturned == recall.pc = "done" /\ recall.outcome = "returned"

\* C26: whenever parse_all_data returns, after the last district or after
\* an exception caught at its top level, with self.data non-empty and no
\* save having failed, the CSV file and the JSON file hold exactly the
\* records of self.data.
C26_ProgressPersisted ==
    (RecallReturned /\ recall.data # <<>> /\ ~recall.save_failed)
    => /\ disk.exists
       /\ disk.csv = recall.data
       /\ disk.json = recall.data

\* C26 witness: a resumed run that read new records and returned through
\* the top-level handler before the last district
C26_Witness ==
    /\ RecallReturned
    /\ ~recall.save_failed
    /\ recall.loaded # <<>>
    /\ recall.d <= Len(recall.districts)
    /\ \E i \in 1..Len(recall.data) : recall.data[i].values = "page"
    /\ disk.json = recall.data

\* the number of records of self.data that the CSV file does not hold
Unsaved ==
    Cardinality({ i \in 1..Len(recall.data) :
                    ~\E j \in 1..Len(disk.csv) : disk.csv[j] = recall.data[i] })

C28_ResumeNeverDuplicates ==
    (recall.pc # "idle" /\ NoDuplicateKeys(recall.loaded))
    => /\ NoDuplicateKeys(recall.data)
       /\ Len(recall.data) >= Len(recall.loaded)
       /\ SubSeq(recall.data, 1, Len(recall.loaded)) = recall.loaded

\* C28 witness: a resumed run over the listing that repeats a station has
\* finished with one record per station
C28_Witness ==
    /\ RecallReturned
    /\ Len(site.districts) = 2
    /\ Len(recall.loaded) = 1
    /\ Len(recall.data) = 4

\* C29: with no API key configured, the site listing its regions and
\* nothing failing, the pipeline of main() runs to completion without an
\* exception and both the CSV and the JSON file are written.
C29_PipelineCompletesWithoutKey ==
    ( /\ polling.pc \in {"done", "raised"}
      /\ ~polling.gmaps
      /\ site.regions # <<>>
      /\ faults = 0 )
    => /\ polling.pc = "done"
       /\ polling.csv_written
       /\ polling.json_written

\* C30: when parse_all_data has returned or raised, and when
\* parse_all_regions has returned or raised, a browser driver that was set
\* up has been quit.
C30_DriverAlwaysReleased ==
    /\ recall.pc = "done" => recall.driver # "open"
    /\ polling.pc \in {"process", "save_data", "done", "raised"}
         => polling.driver # "open"

====
